---- MODULE Spec2Model ----
(***************************************************************************)
(* State-machine model of the Tado API client (src/src/tado/client.rs):    *)
(* the OAuth2 device-code authentication flow (authenticate,               *)
(* approve_device, wait_for_tokens), the token refresh                     *)
(* (refresh_authentication, set_tokens) and the resource calls that use    *)
(* the bearer token (retrieve_zones, retrieve_weather).                    *)
(*                                                                         *)
(* One action models the code between two suspension points (.await): it   *)
(* sends the request, lets time pass while the request is in flight,       *)
(* draws the server's response and runs the code up to the next await.     *)
(* Time is counted in whole seconds.  A network round trip takes at least  *)
(* one second in the model, so that an instant read after a response is    *)
(* later than every instant read before the request.                       *)
(***************************************************************************)
EXTENDS Integers, Sequences, FiniteSets, TLC

(***************************************************************************)
(* Bounds of the model.                                                    *)
(***************************************************************************)
MaxTime == 7          \* the clock stops here
MaxLatency == 1       \* longest network round trip, seconds
MaxGrantExpiry == 3   \* largest expires_in of a grant-start response
MaxInterval == 2      \* largest interval of a grant-start response
MaxTokenSlack == 5    \* largest expires_in of a token response, above the margin
MaxZones == 2         \* most zones in a zones listing

(***************************************************************************)
(* Program constants.                                                      *)
(***************************************************************************)
AUTH_PENDING_MESSAGE == "authorization_pending"
AUTH_COMPLETE_URL == "https://login.tado.com/oauth2/authorize"
AUTH_DEVICE_URL == "https://login.tado.com/oauth2/device"
AUTH_START_URL == "https://login.tado.com/oauth2/device_authorize"
AUTH_TOKEN_URL == "https://login.tado.com/oauth2/token"
BASE_URL == "https://my.tado.com/api/v2/"
\* the literal 10 of set_tokens: seconds taken off the tokens' validity
RefreshMargin == 10

(***************************************************************************)
(* Inputs: what the servers may answer.                                    *)
(***************************************************************************)
Latencies == 1..MaxLatency

Statuses == {101, 200, 204, 302, 400, 401, 429, 500}

\* the statuses wait_for_tokens has no arm of its own for
OtherStatuses == Statuses \ {200, 400}

\* expires_in of a token response: below, at and above the margin
TokenExpiries ==
    {0, RefreshMargin - 1, RefreshMargin, RefreshMargin + 1,
     RefreshMargin + MaxTokenSlack}

\* AuthTokensResponse as built at client.rs:60-64
AuthTokensResponse(a, r, n) ==
    [access_token |-> a, refresh_token |-> r, expires_in |-> n]

\* bodies of a response of the token endpoint, before decoding
TokenBody(a, r, n) ==
    [kind |-> "tokens", access_token |-> a, refresh_token |-> r,
     expires_in |-> n, error |-> ""]

TokenBodies ==
    {TokenBody("A", "R", n) : n \in TokenExpiries} \cup
    {TokenBody("B", "S", n) : n \in {RefreshMargin - 1, RefreshMargin}}

ErrorBodies ==
    {[kind |-> "error", access_token |-> "", refresh_token |-> "",
      expires_in |-> 0, error |-> e] :
        e \in {AUTH_PENDING_MESSAGE, "AUTHORIZATION_PENDING", "access_denied"}}

GarbageBody ==
    [kind |-> "garbage", access_token |-> "", refresh_token |-> "",
     expires_in |-> 0, error |-> ""]

\* where a redirect of the token or consent endpoint, followed by the HTTP
\* client, leads: resp.url() is the URL of the final response
RedirectedUrl == "https://login.tado.com/elsewhere"

\* send() failed: there is no response
TransportError ==
    [transport |-> FALSE, status |-> 0, url |-> AUTH_TOKEN_URL,
     body |-> GarbageBody]

\* answers of the token endpoint: every body under 200 and under 400, and
\* under the other statuses an undecodable body or a token body, from the
\* token URL or from the URL a redirect led to
TokenResponses ==
    {TransportError} \cup
    [transport : {TRUE}, status : {200, 400}, url : {AUTH_TOKEN_URL},
     body : TokenBodies \cup ErrorBodies \cup {GarbageBody}] \cup
    [transport : {TRUE}, status : OtherStatuses,
     url : {AUTH_TOKEN_URL, RedirectedUrl},
     body : {GarbageBody, TokenBody("B", "S", RefreshMargin)}]

\* AuthStartResponse: the decoded body of the grant-start response
\* (an interval of 0 makes the poller poll without pause; the model takes
\* intervals of at least one second)
GrantExpiries == 0..MaxGrantExpiry
Intervals == 1..MaxInterval

StartBodies ==
    {[kind |-> "start", device_code |-> "D", user_code |-> "U",
      verification_uri_complete |-> "V", expires_in |-> e, interval |-> i] :
        e \in GrantExpiries, i \in Intervals}

GarbageStart ==
    [kind |-> "garbage", device_code |-> "", user_code |-> "",
     verification_uri_complete |-> "", expires_in |-> 0, interval |-> 0]

StartResponses ==
    {[transport |-> FALSE, status |-> 0, body |-> GarbageStart]} \cup
    [transport : {TRUE}, status : {200, 500},
     body : StartBodies \cup {GarbageStart}]

\* the six query parameters approve_device reads, in the order it reads them
RequiredParams ==
    <<"code_challenge", "code_challenge_method", "redirect_uri",
      "response_type", "state", "tenantId">>

ParamNames == {RequiredParams[i] : i \in 1..Len(RequiredParams)}

\* the Location header of the device-session response:
\*   header  - "none": absent, "opaque": not visible ASCII, "text": readable
\*   parses  - whether origin + value is a URL
\*   params  - the query parameters the URL carries
NoLocation == [header |-> "none", parses |-> FALSE, params |-> {}]

Locations ==
    {NoLocation,
     [header |-> "opaque", parses |-> FALSE, params |-> {}],
     [header |-> "text", parses |-> FALSE, params |-> {}]} \cup
    {[header |-> "text", parses |-> TRUE, params |-> p] :
        p \in SUBSET ParamNames}

CookieLists == {<<>>, <<"c2", "c1">>}

\* the Location the flow goes on with: a URL with the six parameters
FullLocation == [header |-> "text", parses |-> TRUE, params |-> ParamNames]

\* answers of the device-session endpoint: a redirect, with whatever Location
\* (and whatever cookies, when the flow goes on), or another status without
\* Location
DeviceResponses ==
    {[transport |-> FALSE, status |-> 0, location |-> NoLocation,
      cookies |-> <<>>]} \cup
    [transport : {TRUE}, status : {302}, location : {FullLocation},
     cookies : CookieLists] \cup
    [transport : {TRUE}, status : {302}, location : Locations,
     cookies : {<<"c2", "c1">>}] \cup
    [transport : {TRUE}, status : {200, 400}, location : {NoLocation},
     cookies : CookieLists]

\* the final response of the consent POST, sent by the client that follows
\* redirects; url: resp.url(), the consent URL or the URL a redirect led to
\* (the code reads it only for an error status); readable: whether text()
\* succeeds
ConsentResponses ==
    {[transport |-> FALSE, status |-> 0, url |-> AUTH_COMPLETE_URL,
      readable |-> FALSE]} \cup
    [transport : {TRUE}, status : Statuses, url : {AUTH_COMPLETE_URL},
     readable : BOOLEAN] \cup
    [transport : {TRUE}, status : {401, 500}, url : {RedirectedUrl},
     readable : BOOLEAN]

\* account metadata (MeApiResponse): the ids of the homes, in order
MeBody(kind, homes) == [kind |-> kind, homes |-> homes]

HomeLists == {<<>>, <<0>>, <<1>>, <<2, 1>>}

MeResponses ==
    {[transport |-> FALSE, status |-> 0, body |-> MeBody("garbage", <<>>)],
     [transport |-> TRUE, status |-> 200, body |-> MeBody("garbage", <<>>)],
     [transport |-> TRUE, status |-> 401, body |-> MeBody("garbage", <<>>)]}
    \cup {[transport |-> TRUE, status |-> 200, body |-> MeBody("me", h)] :
            h \in HomeLists}

\* the zones listing (Vec<ZonesApiResponse>): zones 1..n, each with a name
ZoneNames == <<"hall", "bath", "loft", "shed">>

ZoneList(n) == [i \in 1..n |-> [id |-> i, name |-> ZoneNames[i]]]

ZonesBody(kind, zones) == [kind |-> kind, zones |-> zones]

ZonesResponses ==
    {[transport |-> FALSE, status |-> 0, body |-> ZonesBody("garbage", <<>>)],
     [transport |-> TRUE, status |-> 200, body |-> ZonesBody("garbage", <<>>)],
     [transport |-> TRUE, status |-> 401, body |-> ZonesBody("garbage", <<>>)]}
    \cup {[transport |-> TRUE, status |-> 200,
           body |-> ZonesBody("zones", ZoneList(n))] : n \in 0..MaxZones}

\* a zone state (ZoneStateApiResponse) or the weather (WeatherApiResponse),
\* reduced to one value
DataBody(kind, data) == [kind |-> kind, data |-> data]

DataResponses ==
    {[transport |-> FALSE, status |-> 0, body |-> DataBody("garbage", "")],
     [transport |-> TRUE, status |-> 200, body |-> DataBody("garbage", "")],
     [transport |-> TRUE, status |-> 401, body |-> DataBody("garbage", "")],
     [transport |-> TRUE, status |-> 200, body |-> DataBody("data", "x")],
     [transport |-> TRUE, status |-> 200, body |-> DataBody("data", "y")]}

(***************************************************************************)
(* Results of the operations.                                              *)
(***************************************************************************)
NoUrl == ""
NoParam == ""

Result(kind, cause, status, url, param) ==
    [kind |-> kind, cause |-> cause, status |-> status, url |-> url,
     param |-> param]

NoResult == Result("none", "", 0, NoUrl, NoParam)
Ok == Result("Ok", "", 0, NoUrl, NoParam)

\* AuthError::Http(reqwest::Error): the request could not be sent ("send"),
\* the body could not be read or decoded ("decode"), or the status is an
\* error status ("status", with the status and the URL of the response)
HttpSend(url) == Result("Http", "send", 0, url, NoParam)
HttpDecode(url) == Result("Http", "decode", 0, url, NoParam)
HttpStatus(status, url) == Result("Http", "status", status, url, NoParam)
\* reqwest::Client::builder().build() failed
HttpBuilder == Result("Http", "builder", 0, NoUrl, NoParam)
HttpHeader == Result("HttpHeader", "", 0, NoUrl, NoParam)
MissingParam(name) == Result("MissingParam", "", 0, NoUrl, name)
Timeout == Result("Timeout", "", 0, NoUrl, NoParam)
UnexpectedStatus(status, url) ==
    Result("UnexpectedStatus", "", status, url, NoParam)
UrlParse == Result("UrlParse", "", 0, NoUrl, NoParam)
\* what retrieve_zones and retrieve_weather return; the Vec or the Option's
\* content is in `value`
ReturnedVec == Result("Vec", "", 0, NoUrl, NoParam)
ReturnedSome == Result("Some", "", 0, NoUrl, NoParam)
ReturnedNone == Result("None", "", 0, NoUrl, NoParam)
\* the operation panicked: there is no return value
Panic == Result("panic", "", 0, NoUrl, NoParam)

(***************************************************************************)
(* Pure pieces of the code.                                                *)
(***************************************************************************)
\* reqwest's error_for_status: an error for a 4xx or 5xx status
IsErrorStatus(status) == status >= 400 /\ status <= 599

\* variant: every field of AuthTokensResponse has a default, so that an error
\* body decodes as well
DecodesAsTokensLenient(body) == body.kind \in {"tokens", "error"}

\* resp.json::<AuthTokensResponse>(): the body must carry the three fields
DecodesAsTokens(body) == body.kind = "tokens"

DecodeTokens(body) ==
    AuthTokensResponse(body.access_token, body.refresh_token, body.expires_in)

\* resp.json::<AuthTokensErrorResponse>(): the body must carry `error`
DecodesAsError(body) == body.kind = "error"

\* variant: the error code is compared without regard to case
IsPendingAnyCase(error) ==
    error \in {AUTH_PENDING_MESSAGE, "AUTHORIZATION_PENDING"}

\* variant: the error code is compared with another constant
IsPendingOtherConstant(error) == error = "pending"

\* failure.error != AUTH_PENDING_MESSAGE is false
IsPending(error) == error = AUTH_PENDING_MESSAGE

\* variant: the deadline itself still counts as fresh
TokensFreshInclusive(t, refresh_by) == t <= refresh_by

\* Instant::now() < self.tokens_refresh_by
TokensFresh(t, refresh_by) == t < refresh_by

\* Instant::now() < must_complete_by
GrantLive(t, complete_by) == t < complete_by

\* must_complete_by of wait_for_tokens (Instant + Duration overflows only
\* for an expires_in near 2^63, far above GrantExpiries)
MustCompleteBy(t, expires_in) == t + expires_in

\* tokens_refresh_by of set_tokens, when the subtraction does not underflow
RefreshBy(t, expires_in) == t + (expires_in - RefreshMargin)

\* the first of the six parameters, in reading order, the query lacks
RECURSIVE FirstMissingFrom(_, _)
FirstMissingFrom(i, params) ==
    IF i > Len(RequiredParams) THEN NoParam
    ELSE IF RequiredParams[i] \notin params THEN RequiredParams[i]
    ELSE FirstMissingFrom(i + 1, params)

\* variant: the parameters are read from the last to the first
FirstMissingReversed(params) ==
    LET missing ==
            {i \in 1..Len(RequiredParams) : RequiredParams[i] \notin params}
    IN  IF missing = {} THEN NoParam
        ELSE RequiredParams[CHOOSE i \in missing : \A j \in missing : j <= i]

FirstMissing(params) == FirstMissingFrom(1, params)

\* authenticate, lines 180-186: the grant-start response is decoded whatever
\* its status
StartOutcome(resp) ==
    IF ~resp.transport THEN [ok |-> FALSE, result |-> HttpSend(AUTH_START_URL)]
    ELSE IF resp.body.kind # "start"
    THEN [ok |-> FALSE, result |-> HttpDecode(AUTH_START_URL)]
    ELSE [ok |-> TRUE, result |-> NoResult]

\* variant: an absent Location header is read as an empty value
DeviceOutcomeEmptyLocation(resp) ==
    IF ~resp.transport THEN [ok |-> FALSE, result |-> HttpSend(AUTH_DEVICE_URL)]
    ELSE IF resp.location.header = "opaque"
    THEN [ok |-> FALSE, result |-> HttpHeader]
    ELSE IF resp.location.header = "text" /\ ~resp.location.parses
    THEN [ok |-> FALSE, result |-> UrlParse]
    ELSE IF FirstMissing(resp.location.params) # NoParam
    THEN [ok |-> FALSE,
          result |-> MissingParam(FirstMissing(resp.location.params))]
    ELSE [ok |-> TRUE, result |-> NoResult]

\* approve_device, lines 83-120: from the device-session response to the
\* six parameters
DeviceOutcome(resp) ==
    IF ~resp.transport THEN [ok |-> FALSE, result |-> HttpSend(AUTH_DEVICE_URL)]
    ELSE IF resp.location.header = "none"
    THEN [ok |-> FALSE,
          result |-> UnexpectedStatus(resp.status, AUTH_DEVICE_URL)]
    ELSE IF resp.location.header = "opaque"
    THEN [ok |-> FALSE, result |-> HttpHeader]
    ELSE IF ~resp.location.parses THEN [ok |-> FALSE, result |-> UrlParse]
    ELSE IF FirstMissing(resp.location.params) # NoParam
    THEN [ok |-> FALSE,
          result |-> MissingParam(FirstMissing(resp.location.params))]
    ELSE [ok |-> TRUE, result |-> NoResult]

\* approve_device, lines 153-156: the loop over the Set-Cookie values of the
\* device-session response; RequestBuilder::header appends one Cookie header
\* per value
RECURSIVE CookieHeadersFrom(_, _, _)
CookieHeadersFrom(i, set_cookies, headers) ==
    IF i > Len(set_cookies) THEN headers
    ELSE CookieHeadersFrom(i + 1, set_cookies,
                           Append(headers, set_cookies[i]))

\* variant: each header() call replaces the Cookie header set before
CookieHeadersReplaced(set_cookies) ==
    IF set_cookies = <<>> THEN <<>>
    ELSE <<set_cookies[Len(set_cookies)]>>

\* the Cookie headers of the consent POST
CookieHeaders(set_cookies) == CookieHeadersFrom(1, set_cookies, <<>>)

\* variant: without resp.error_for_status_ref()?
ConsentOutcomeAnyStatus(resp) ==
    IF ~resp.transport
    THEN [ok |-> FALSE, result |-> HttpSend(AUTH_COMPLETE_URL)]
    ELSE IF ~resp.readable
    THEN [ok |-> FALSE, result |-> HttpDecode(AUTH_COMPLETE_URL)]
    ELSE [ok |-> TRUE, result |-> Ok]

\* approve_device, lines 159-164: the response of the consent POST
ConsentOutcome(resp) ==
    IF ~resp.transport
    THEN [ok |-> FALSE, result |-> HttpSend(AUTH_COMPLETE_URL)]
    ELSE IF IsErrorStatus(resp.status)
    THEN [ok |-> FALSE, result |-> HttpStatus(resp.status, resp.url)]
    ELSE IF ~resp.readable
    THEN [ok |-> FALSE, result |-> HttpDecode(AUTH_COMPLETE_URL)]
    ELSE [ok |-> TRUE, result |-> Ok]

\* variant: without resp.error_for_status()? in the last arm of the match
PollOutcomeNoErrorForStatus(resp) ==
    IF ~resp.transport
    THEN [step |-> "fail", result |-> HttpSend(AUTH_TOKEN_URL)]
    ELSE IF resp.status = 200
    THEN IF DecodesAsTokens(resp.body)
         THEN [step |-> "set_tokens", result |-> Ok]
         ELSE [step |-> "fail", result |-> HttpDecode(resp.url)]
    ELSE IF resp.status = 400
    THEN IF ~DecodesAsError(resp.body)
         THEN [step |-> "fail", result |-> HttpDecode(resp.url)]
         ELSE IF ~IsPending(resp.body.error)
         THEN [step |-> "fail", result |-> HttpStatus(400, resp.url)]
         ELSE [step |-> "sleep", result |-> NoResult]
    ELSE [step |-> "fail", result |-> UnexpectedStatus(resp.status, resp.url)]

\* wait_for_tokens, lines 351-379: what one answer of the token endpoint
\* leads to: "set_tokens", "sleep" (poll again) or "fail"
PollOutcome(resp) ==
    IF ~resp.transport
    THEN [step |-> "fail", result |-> HttpSend(AUTH_TOKEN_URL)]
    ELSE IF resp.status = 200
    THEN IF DecodesAsTokens(resp.body)
         THEN [step |-> "set_tokens", result |-> Ok]
         ELSE [step |-> "fail", result |-> HttpDecode(resp.url)]
    ELSE IF resp.status = 400
    THEN IF ~DecodesAsError(resp.body)
         THEN [step |-> "fail", result |-> HttpDecode(resp.url)]
         ELSE IF ~IsPending(resp.body.error)
         THEN [step |-> "fail", result |-> HttpStatus(400, resp.url)]
         ELSE [step |-> "sleep", result |-> NoResult]
    ELSE IF IsErrorStatus(resp.status)
    THEN [step |-> "fail", result |-> HttpStatus(resp.status, resp.url)]
    ELSE [step |-> "fail", result |-> UnexpectedStatus(resp.status, resp.url)]

\* refresh_authentication, lines 250-258: the status is not looked at
RefreshOutcome(resp) ==
    IF ~resp.transport
    THEN [step |-> "fail", result |-> HttpSend(AUTH_TOKEN_URL)]
    ELSE IF DecodesAsTokens(resp.body)
    THEN [step |-> "set_tokens", result |-> Ok]
    ELSE [step |-> "fail", result |-> HttpDecode(resp.url)]

\* resp.json::<T>() of the resource calls: get() does not look at the status
Decodes(resp, kind) == resp.transport /\ resp.body.kind = kind

\* variant: the home is looked up on every call
NeedsHomeLookupAlways(home) == TRUE

\* `if self.home_id == 0` of retrieve_zones and retrieve_weather
NeedsHomeLookup(home) == home = 0

\* the URLs of the resource calls (lines 206, 213, 222, 231)
MeUrl == "/api/v2/me"
ZonesUrl(home) == "/api/v2/homes/" \o ToString(home) \o "/zones"
ZoneStateUrl(home, zone) ==
    "/api/v2/homes/" \o ToString(home) \o "/zones/" \o ToString(zone)
        \o "/state"
WeatherUrl(home) == "homes/" \o ToString(home) \o "/weather/"

\* set_tokens called at instant t.  expires_in is a u64: when it is below
\* the margin, `tokens.expires_in - 10` panics in a build with overflow
\* checks (nothing is written); without them it wraps to a value near 2^64,
\* self.tokens is assigned, and Instant + Duration panics on overflow.
SetTokensOutcomes(new, t, old_tokens, old_refresh_by) ==
    IF new.expires_in >= RefreshMargin
    THEN {[tokens |-> new, tokens_refresh_by |-> RefreshBy(t, new.expires_in),
           written |-> TRUE, panicked |-> FALSE]}
    ELSE {[tokens |-> old_tokens, tokens_refresh_by |-> old_refresh_by,
           written |-> FALSE, panicked |-> TRUE],
          [tokens |-> new, tokens_refresh_by |-> old_refresh_by,
           written |-> TRUE, panicked |-> TRUE]}

(***************************************************************************)
(* State.                                                                  *)
(***************************************************************************)
VARIABLES
    now,                \* the clock (Instant::now()), seconds
    pc,                 \* the await the running operation is at, or "idle"
    op,                 \* the operation running, or the last one that ran
    identity,           \* username, password, client_id, base_url
    tokens,             \* Client.tokens
    tokens_refresh_by,  \* Client.tokens_refresh_by
    home_id,            \* Client.home_id
    start,              \* authenticate's `start` (AuthStartResponse)
    must_complete_by,   \* wait_for_tokens' must_complete_by
    session_start,      \* when the grant-start response was decoded (-1: none)
    cookies,            \* Set-Cookie values of the device-session response
    zones_left,         \* retrieve_zones: zones not asked for yet
    response,           \* retrieve_zones: `response` built so far
    result,             \* what the last operation returned
    value,              \* the Vec / Option a resource call returned
    trace,              \* requests, sleeps and set_tokens calls of the operation
    received_at,        \* when the stored tokens were written (-1: never)
    set_call,           \* the latest call of set_tokens: instant, argument
    before              \* tokens and deadline when the operation began

vars ==
    <<now, pc, op, identity, tokens, tokens_refresh_by, home_id, start,
      must_complete_by, session_start, cookies, zones_left, response,
      result, value, trace, received_at, set_call, before>>

NoStart == GarbageStart
NoSetCall == [at |-> -1, tokens |-> AuthTokensResponse("", "", 0)]

\* one entry of the trace: a request with the response it got (the shape of
\* resp depends on the endpoint ep), ...
Request(ep, grant, cred, bearer, sent_cookies, stale, resp) ==
    [ev |-> "request", ep |-> ep, grant |-> grant, cred |-> cred,
     bearer |-> bearer, cookies |-> sent_cookies, stale |-> stale,
     resp |-> resp, dur |-> 0]

\* ... a call of tokio::time::sleep, of wait_for_tokens or of set_tokens
Event(ev, dur) ==
    [ev |-> ev, ep |-> NoUrl, grant |-> "", cred |-> "", bearer |-> FALSE,
     cookies |-> <<>>, stale |-> FALSE, resp |-> TransportError, dur |-> dur]

Sleep(dur) == Event("sleep", dur)
WaitForTokensCall == Event("wait_for_tokens", 0)
SetTokensCall == Event("set_tokens", 0)

DEVICE_CODE_GRANT == "urn:ietf:params:oauth:grant-type:device_code"
REFRESH_GRANT == "refresh_token"

Snapshot ==
    [at |-> now, tokens |-> tokens, tokens_refresh_by |-> tokens_refresh_by]

\* variant: the constructor stores username and password in each other's
\* field
Client_with_base_url_swapped(base_url, username, password, client_id) ==
    [username |-> password, password |-> username, client_id |-> client_id,
     base_url |-> base_url]

\* Client::with_base_url (lines 48-68): the identity fields of the new client
Client_with_base_url(base_url, username, password, client_id) ==
    [username |-> username, password |-> password, client_id |-> client_id,
     base_url |-> base_url]

\* Client::new (lines 40-46)
Client_new(username, password, client_id) ==
    Client_with_base_url(BASE_URL, username, password, client_id)

\* Client::new / with_base_url, at instant 0, with the arguments of test_new
Init ==
    /\ now = 0
    /\ pc = "idle"
    /\ op = "none"
    /\ identity = Client_new("username", "password", "client_id")
    /\ tokens = AuthTokensResponse("", "", 0)
    /\ tokens_refresh_by = 0
    /\ home_id = 0
    /\ start = NoStart
    /\ must_complete_by = 0
    /\ session_start = -1
    /\ cookies = <<>>
    /\ zones_left = <<>>
    /\ response = <<>>
    /\ result = NoResult
    /\ value = <<>>
    /\ trace = <<>>
    /\ received_at = -1
    /\ set_call = NoSetCall
    /\ before = [at |-> 0, tokens |-> AuthTokensResponse("", "", 0),
                 tokens_refresh_by |-> 0]

(***************************************************************************)
(* Pieces shared by the actions.                                           *)
(***************************************************************************)
\* no operation is running and the caller has taken the last return value
Idle == pc = "idle" /\ op = "none"

\* an operation begins
Begin(name) ==
    /\ op' = name
    /\ before' = Snapshot

\* the locals of the authentication flow are dropped
DropAuthLocals ==
    /\ start' = NoStart
    /\ must_complete_by' = 0
    /\ session_start' = -1
    /\ cookies' = <<>>

\* the operation returns res
Return(res) ==
    /\ pc' = "idle"
    /\ result' = res

\* self.set_tokens(new) at instant t, then `return Ok(())`
CallSetTokens(new, t) ==
    \E o \in SetTokensOutcomes(new, t, tokens, tokens_refresh_by) :
        /\ tokens' = o.tokens
        /\ tokens_refresh_by' = o.tokens_refresh_by
        /\ received_at' = IF o.written THEN t ELSE received_at
        /\ set_call' = [at |-> t, tokens |-> new]
        /\ pc' = IF o.panicked THEN "panicked" ELSE "idle"
        /\ result' = IF o.panicked THEN Panic ELSE Ok

TokenStateUnchanged ==
    UNCHANGED <<tokens, tokens_refresh_by, received_at, set_call>>

ZoneLocalsUnchanged == UNCHANGED <<zones_left, response>>

\* Client::get (lines 197-203): a GET with the stored access token as bearer
\* credential; stale: the refresh deadline has passed when it is sent
Get(url, resp) ==
    Request(url, "", tokens.access_token, TRUE, <<>>,
            ~TokensFresh(now, tokens_refresh_by), resp)

(***************************************************************************)
(* authenticate: the grant-start POST (lines 174-187).                     *)
(***************************************************************************)
Authenticate ==
    /\ Idle
    /\ \E d \in Latencies, resp \in StartResponses :
        LET t == now + d
            out == StartOutcome(resp)
        IN  /\ t <= MaxTime
            /\ now' = t
            /\ Begin("authenticate")
            /\ trace' = <<Request(AUTH_START_URL, "", identity.client_id,
                                  FALSE, <<>>, FALSE, resp)>>
            /\ value' = <<>>
            /\ IF out.ok
               THEN /\ start' = resp.body
                    /\ session_start' = t
                    /\ pc' = "device"
                    /\ result' = NoResult
               ELSE /\ start' = NoStart
                    /\ session_start' = -1
                    /\ Return(out.result)
            /\ UNCHANGED <<must_complete_by, cookies>>
            /\ TokenStateUnchanged
            /\ ZoneLocalsUnchanged
            /\ UNCHANGED <<identity, home_id>>

(***************************************************************************)
(* approve_device: the device-session POST, up to the six parameters       *)
(* (lines 71-120).  built: whether the redirect-less HTTP client could be  *)
(* built (line 74).                                                        *)
(***************************************************************************)
ApproveDeviceSession ==
    /\ pc = "device"
    /\ \/ /\ UNCHANGED <<now, trace>>
          /\ DropAuthLocals
          /\ Return(HttpBuilder)
       \/ \E d \in Latencies, resp \in DeviceResponses :
            LET t == now + d
                out == DeviceOutcome(resp)
            IN  /\ t <= MaxTime
                /\ now' = t
                /\ trace' = Append(trace,
                        Request(AUTH_DEVICE_URL, "", start.user_code, FALSE,
                                <<>>, FALSE, resp))
                /\ IF out.ok
                   THEN /\ cookies' = resp.cookies
                        /\ pc' = "consent"
                        /\ UNCHANGED <<start, must_complete_by,
                                       session_start, result>>
                   ELSE /\ DropAuthLocals
                        /\ Return(out.result)
    /\ TokenStateUnchanged
    /\ ZoneLocalsUnchanged
    /\ UNCHANGED <<op, before, identity, home_id, value>>

(***************************************************************************)
(* approve_device: the consent POST (lines 122-165); when it succeeds,     *)
(* authenticate enters wait_for_tokens, which sets must_complete_by        *)
(* (line 344).                                                             *)
(***************************************************************************)
ApproveDeviceConsent ==
    /\ pc = "consent"
    /\ \E d \in Latencies, resp \in ConsentResponses :
        LET t == now + d
            out == ConsentOutcome(resp)
        IN  /\ t <= MaxTime
            /\ now' = t
            /\ trace' = LET sent == Append(trace,
                                Request(AUTH_COMPLETE_URL, "",
                                        start.user_code, FALSE,
                                        CookieHeaders(cookies),
                                        FALSE, resp))
                        IN  IF out.ok THEN Append(sent, WaitForTokensCall)
                            ELSE sent
            /\ IF out.ok
               THEN /\ must_complete_by' = MustCompleteBy(t, start.expires_in)
                    /\ cookies' = <<>>
                    /\ pc' = "poll"
                    /\ UNCHANGED <<start, session_start, result>>
               ELSE /\ DropAuthLocals
                    /\ Return(out.result)
            /\ TokenStateUnchanged
            /\ ZoneLocalsUnchanged
            /\ UNCHANGED <<op, before, identity, home_id, value>>

(***************************************************************************)
(* wait_for_tokens (lines 343-384).                                        *)
(***************************************************************************)
\* the loop condition is false: Err(AuthError::Timeout)
WaitTimeout ==
    /\ pc = "poll"
    /\ ~GrantLive(now, must_complete_by)
    /\ DropAuthLocals
    /\ Return(Timeout)
    /\ TokenStateUnchanged
    /\ ZoneLocalsUnchanged
    /\ UNCHANGED <<now, op, before, identity, home_id, value, trace>>

\* one iteration of the loop, up to the sleep
WaitPoll ==
    /\ pc = "poll"
    /\ GrantLive(now, must_complete_by)
    /\ \E d \in Latencies, resp \in TokenResponses :
        LET t == now + d
            out == PollOutcome(resp)
            req == Request(AUTH_TOKEN_URL, DEVICE_CODE_GRANT,
                           start.device_code, FALSE, <<>>, FALSE, resp)
        IN  /\ t <= MaxTime
            /\ now' = t
            /\ CASE out.step = "set_tokens" ->
                       /\ trace' = Append(Append(trace, req), SetTokensCall)
                       /\ CallSetTokens(DecodeTokens(resp.body), t)
                       /\ DropAuthLocals
                 [] out.step = "sleep" ->
                       /\ trace' = Append(Append(trace, req),
                                          Sleep(start.interval))
                       /\ pc' = "sleep"
                       /\ TokenStateUnchanged
                       /\ UNCHANGED <<start, must_complete_by,
                                      session_start, cookies, result>>
                 [] OTHER ->
                       /\ trace' = Append(trace, req)
                       /\ Return(out.result)
                       /\ DropAuthLocals
                       /\ TokenStateUnchanged
            /\ ZoneLocalsUnchanged
            /\ UNCHANGED <<op, before, identity, home_id, value>>

\* tokio::time::sleep(interval) completes
WaitSleep ==
    /\ pc = "sleep"
    /\ now + start.interval <= MaxTime
    /\ now' = now + start.interval
    /\ pc' = "poll"
    /\ TokenStateUnchanged
    /\ ZoneLocalsUnchanged
    /\ UNCHANGED <<op, before, identity, home_id, value, trace, start,
                   must_complete_by, session_start, cookies, result>>

(***************************************************************************)
(* refresh_authentication (lines 240-261).                                 *)
(***************************************************************************)
RefreshAuthentication ==
    /\ Idle
    /\ Begin("refresh_authentication")
    /\ value' = <<>>
    /\ IF TokensFresh(now, tokens_refresh_by)
       THEN /\ trace' = <<>>
            /\ Return(Ok)
            /\ TokenStateUnchanged
            /\ UNCHANGED now
       ELSE \E d \in Latencies, resp \in TokenResponses :
            LET t == now + d
                out == RefreshOutcome(resp)
                req == Request(AUTH_TOKEN_URL, REFRESH_GRANT,
                               tokens.refresh_token, FALSE, <<>>, FALSE,
                               resp)
            IN  /\ t <= MaxTime
                /\ now' = t
                /\ IF out.step = "set_tokens"
                   THEN /\ trace' = <<req, SetTokensCall>>
                        /\ CallSetTokens(DecodeTokens(resp.body), t)
                   ELSE /\ trace' = <<req>>
                        /\ Return(out.result)
                        /\ TokenStateUnchanged
    /\ ZoneLocalsUnchanged
    /\ UNCHANGED <<identity, home_id, start, must_complete_by,
                   session_start, cookies>>

(***************************************************************************)
(* retrieve_zones (lines 263-305).                                         *)
(***************************************************************************)
\* the home lookup, when home_id is still 0
RetrieveZonesMe ==
    /\ Idle
    /\ NeedsHomeLookup(home_id)
    /\ \E d \in Latencies, resp \in MeResponses :
        LET t == now + d IN
            /\ t <= MaxTime
            /\ now' = t
            /\ Begin("retrieve_zones")
            /\ trace' = <<Get(MeUrl, resp)>>
            /\ value' = <<>>
            /\ IF ~Decodes(resp, "me")
               THEN /\ Return(ReturnedVec)
                    /\ UNCHANGED home_id
               ELSE IF resp.body.homes = <<>>
               THEN \* homes.first().unwrap() on an empty list
                    /\ pc' = "panicked"
                    /\ result' = Panic
                    /\ UNCHANGED home_id
               ELSE /\ home_id' = Head(resp.body.homes)
                    /\ pc' = "zones"
                    /\ result' = NoResult
    /\ TokenStateUnchanged
    /\ ZoneLocalsUnchanged
    /\ UNCHANGED <<identity, start, must_complete_by, session_start, cookies>>

\* the zones listing
RetrieveZonesList ==
    /\ \/ Idle /\ ~NeedsHomeLookup(home_id)
       \/ pc = "zones"
    /\ \E d \in Latencies, resp \in ZonesResponses :
        LET t == now + d
            req == Get(ZonesUrl(home_id), resp)
        IN  /\ t <= MaxTime
            /\ now' = t
            /\ IF Idle
               THEN Begin("retrieve_zones") /\ trace' = <<req>>
               ELSE UNCHANGED <<op, before>> /\ trace' = Append(trace, req)
            /\ IF ~Decodes(resp, "zones") \/ resp.body.zones = <<>>
               THEN /\ Return(ReturnedVec)
                    /\ value' = <<>>
                    /\ zones_left' = <<>>
               ELSE /\ pc' = "zone_state"
                    /\ result' = NoResult
                    /\ value' = <<>>
                    /\ zones_left' = resp.body.zones
            /\ response' = <<>>
    /\ TokenStateUnchanged
    /\ UNCHANGED <<identity, home_id, start, must_complete_by,
                   session_start, cookies>>

\* one turn of the loop over the zones
RetrieveZoneState ==
    /\ pc = "zone_state"
    /\ \E d \in Latencies, resp \in DataResponses :
        LET t == now + d
            zone == Head(zones_left)
            grown == Append(response,
                        [name |-> zone.name, state_response |-> resp.body.data])
        IN  /\ t <= MaxTime
            /\ now' = t
            /\ trace' = Append(trace, Get(ZoneStateUrl(home_id, zone.id), resp))
            /\ IF ~Decodes(resp, "data")
               THEN /\ Return(ReturnedVec)
                    /\ value' = <<>>
                    /\ zones_left' = <<>>
                    /\ response' = <<>>
               ELSE IF Tail(zones_left) = <<>>
               THEN /\ Return(ReturnedVec)
                    /\ value' = grown
                    /\ zones_left' = <<>>
                    /\ response' = <<>>
               ELSE /\ zones_left' = Tail(zones_left)
                    /\ response' = grown
                    /\ UNCHANGED <<pc, result, value>>
    /\ TokenStateUnchanged
    /\ UNCHANGED <<op, before, identity, home_id, start,
                   must_complete_by, session_start, cookies>>

(***************************************************************************)
(* retrieve_weather (lines 307-333).                                       *)
(***************************************************************************)
\* the home lookup, when home_id is still 0
RetrieveWeatherMe ==
    /\ Idle
    /\ NeedsHomeLookup(home_id)
    /\ \E d \in Latencies, resp \in MeResponses :
        LET t == now + d IN
            /\ t <= MaxTime
            /\ now' = t
            /\ Begin("retrieve_weather")
            /\ trace' = <<Get(MeUrl, resp)>>
            /\ value' = <<>>
            /\ IF ~Decodes(resp, "me")
               THEN /\ Return(ReturnedNone)
                    /\ UNCHANGED home_id
               ELSE IF resp.body.homes = <<>>
               THEN \* homes.first().unwrap() on an empty list
                    /\ pc' = "panicked"
                    /\ result' = Panic
                    /\ UNCHANGED home_id
               ELSE /\ home_id' = Head(resp.body.homes)
                    /\ pc' = "weather"
                    /\ result' = NoResult
    /\ TokenStateUnchanged
    /\ ZoneLocalsUnchanged
    /\ UNCHANGED <<identity, start, must_complete_by, session_start, cookies>>

\* the weather request
RetrieveWeatherGet ==
    /\ \/ Idle /\ ~NeedsHomeLookup(home_id)
       \/ pc = "weather"
    /\ \E d \in Latencies, resp \in DataResponses :
        LET t == now + d
            req == Get(WeatherUrl(home_id), resp)
        IN  /\ t <= MaxTime
            /\ now' = t
            /\ IF Idle
               THEN Begin("retrieve_weather") /\ trace' = <<req>>
               ELSE UNCHANGED <<op, before>> /\ trace' = Append(trace, req)
            /\ IF Decodes(resp, "data")
               THEN Return(ReturnedSome) /\ value' = <<resp.body.data>>
               ELSE Return(ReturnedNone) /\ value' = <<>>
    /\ TokenStateUnchanged
    /\ ZoneLocalsUnchanged
    /\ UNCHANGED <<identity, home_id, start, must_complete_by,
                   session_start, cookies>>

\* the caller takes the return value of the operation that ended, or catches
\* the panic that ended it: the unwinding dropped the operation's locals and
\* left the client's fields as they were at the panic, and the client can be
\* used again
Take ==
    /\ pc \in {"idle", "panicked"}
    /\ op # "none"
    /\ pc' = "idle"
    /\ op' = "none"
    /\ result' = NoResult
    /\ value' = <<>>
    /\ trace' = <<>>
    /\ set_call' = NoSetCall
    /\ before' = Snapshot
    /\ UNCHANGED <<now, identity, tokens, tokens_refresh_by, home_id,
                   start, must_complete_by, session_start, cookies,
                   zones_left, response, received_at>>

\* time passes between two operations
Tick ==
    /\ Idle
    /\ now < MaxTime
    /\ now' = now + 1
    /\ before' = Snapshot
    /\ UNCHANGED <<pc, op, identity, tokens, tokens_refresh_by, home_id,
                   start, must_complete_by, session_start, cookies,
                   zones_left, response,
                   result, value, trace, received_at, set_call>>

Next ==
    \/ Authenticate
    \/ ApproveDeviceSession
    \/ ApproveDeviceConsent
    \/ WaitTimeout
    \/ WaitPoll
    \/ WaitSleep
    \/ RefreshAuthentication
    \/ RetrieveZonesMe
    \/ RetrieveZonesList
    \/ RetrieveZoneState
    \/ RetrieveWeatherMe
    \/ RetrieveWeatherGet
    \/ Take
    \/ Tick

Spec == Init /\ [][Next]_vars

TypeOK ==
    /\ now \in 0..MaxTime
    /\ pc \in {"idle", "device", "consent", "poll", "sleep", "zones",
              "zone_state", "weather", "panicked"}
    /\ tokens_refresh_by \in 0..(MaxTime + MaxTokenSlack)
    /\ home_id \in {0, 1, 2}
    /\ Len(zones_left) + Len(response) <= MaxZones

(***************************************************************************)
(* Reading the trace of the operation that runs or has just ended.         *)
(***************************************************************************)
Steps == DOMAIN trace

IsRequest(e) == e.ev = "request"

\* a poll of wait_for_tokens
IsPoll(e) ==
    IsRequest(e) /\ e.ep = AUTH_TOKEN_URL /\ e.grant = DEVICE_CODE_GRANT

\* the request of refresh_authentication
IsRefresh(e) ==
    IsRequest(e) /\ e.ep = AUTH_TOKEN_URL /\ e.grant = REFRESH_GRANT

Polls == {i \in Steps : IsPoll(trace[i])}
Sleeps == {i \in Steps : trace[i].ev = "sleep"}
SetTokensCalls == {i \in Steps : trace[i].ev = "set_tokens"}

\* the token endpoint answered 400 with error "authorization_pending"
AnsweredPending(e) ==
    /\ e.resp.transport
    /\ e.resp.status = 400
    /\ e.resp.body.kind = "error"
    /\ e.resp.body.error = "authorization_pending"

\* the token endpoint answered with a body that carries a token pair
CarriesTokens(e) == e.resp.transport /\ e.resp.body.kind = "tokens"

BodyTokens(e) ==
    [access_token |-> e.resp.body.access_token,
     refresh_token |-> e.resp.body.refresh_token,
     expires_in |-> e.resp.body.expires_in]

\* the operation has ended and its return value has not been taken yet
Ended == pc \in {"idle", "panicked"} /\ op # "none"

TokenStateAsBefore ==
    /\ tokens = before.tokens
    /\ tokens_refresh_by = before.tokens_refresh_by

(***************************************************************************)
(* C1.  Token Poller success: when the token endpoint answers the first k  *)
(* polls with 400 "authorization_pending" and the next one with 200 and a  *)
(* token body, authenticate returns Ok, has sent exactly k+1 token POSTs,  *)
(* has slept exactly k times, each time for the session's interval and     *)
(* right after a pending answer, and the stored tokens are the body of     *)
(* the 200 response.                                                       *)
(***************************************************************************)
C1_PollerSuccess ==
    \A n \in Steps :
        ( /\ op = "authenticate"
          /\ IsPoll(trace[n])
          /\ trace[n].resp.status = 200
          /\ CarriesTokens(trace[n])
          /\ \A i \in Polls : i < n => AnsweredPending(trace[i]) )
        => /\ pc = "idle"
           /\ result = Ok
           /\ \A i \in Polls : i <= n
           /\ Sleeps = {i + 1 : i \in Polls \ {n}}
           /\ Cardinality(Sleeps) = Cardinality(Polls) - 1
           /\ \A i \in Sleeps : trace[i].dur = trace[1].resp.body.interval
           /\ tokens = BodyTokens(trace[n])

(***************************************************************************)
(* C2.  As stated: a poll answered with a status other than 200 and 400    *)
(* ends the polling with UnexpectedStatus(status, token URL).              *)
(***************************************************************************)
C2_UnexpectedStatusAlways ==
    \A n \in Steps :
        ( /\ IsPoll(trace[n])
          /\ trace[n].resp.transport
          /\ trace[n].resp.status \notin {200, 400} )
        => /\ n = Len(trace)
           /\ pc = "idle"
           /\ result = UnexpectedStatus(trace[n].resp.status, AUTH_TOKEN_URL)

(***************************************************************************)
(* C2, amended.  A poll answered with a status other than 200 and 400 is   *)
(* the last step of the call, which fails: with Http for that status when  *)
(* it is a 4xx or 5xx status, otherwise with UnexpectedStatus(status, url) *)
(* where url is the URL of that response (the token URL, or the URL a      *)
(* followed redirect led to).                                              *)
(***************************************************************************)
C2_OtherStatusFails ==
    \A n \in Steps :
        ( /\ IsPoll(trace[n])
          /\ trace[n].resp.transport
          /\ trace[n].resp.status \notin {200, 400} )
        => /\ n = Len(trace)
           /\ pc = "idle"
           /\ TokenStateAsBefore
           /\ result =
                IF trace[n].resp.status \in 400..599
                THEN HttpStatus(trace[n].resp.status, trace[n].resp.url)
                ELSE UnexpectedStatus(trace[n].resp.status, trace[n].resp.url)

C2_Witness ==
    /\ op = "authenticate"
    /\ pc = "idle"
    /\ result = UnexpectedStatus(302, AUTH_TOKEN_URL)
    /\ Cardinality(Polls) >= 2
    /\ trace[Len(trace)].resp.status = 302

(***************************************************************************)
(* C3.  No bearer request is sent at or after the refresh deadline with    *)
(* the token stored then: every bearer request follows a refresh-if-needed *)
(* step of the same operation.                                             *)
(***************************************************************************)
C3_NoStaleBearer ==
    \A i \in Steps :
        (IsRequest(trace[i]) /\ trace[i].bearer) => ~trace[i].stale

(***************************************************************************)
(* C4.  refresh_authentication: strictly before the deadline it returns    *)
(* Ok, sends nothing and leaves tokens and deadline alone; at or after the *)
(* deadline it sends exactly one POST to the token endpoint, with the      *)
(* refresh grant and the stored refresh token, and when the response       *)
(* decodes the stored pair is the response's and the deadline is           *)
(* recomputed from it.                                                     *)
(***************************************************************************)
C4_RefreshIfNeeded ==
    (op = "refresh_authentication" /\ Ended)
    => IF before.at < before.tokens_refresh_by
       THEN /\ result = Ok
            /\ trace = <<>>
            /\ TokenStateAsBefore
       ELSE /\ Cardinality({i \in Steps : IsRequest(trace[i])}) = 1
            /\ IsRefresh(trace[1])
            /\ trace[1].cred = before.tokens.refresh_token
            /\ CarriesTokens(trace[1])
               => /\ pc = "idle"
                  /\ result = Ok
                  /\ tokens = BodyTokens(trace[1])
                  /\ tokens_refresh_by =
                        now + (trace[1].resp.body.expires_in - 10)

(***************************************************************************)
(* C5.  After set_tokens, called at instant t with expires_in = N, the     *)
(* refresh deadline is t + (N - 10), and the call neither wraps around nor *)
(* aborts, whatever N is.                                                  *)
(***************************************************************************)
C5_DeadlineArithmetic ==
    set_call.at # -1
    => /\ pc # "panicked"
       /\ tokens_refresh_by = set_call.at + (set_call.tokens.expires_in - 10)

(***************************************************************************)
(* C6.  Whenever a token pair received at instant t with expires_in = N is *)
(* stored, the refresh deadline is strictly earlier than t + N.            *)
(***************************************************************************)
C6_RefreshBeforeExpiry ==
    received_at # -1 => tokens_refresh_by < received_at + tokens.expires_in

(***************************************************************************)
(* C7.  A poll answered with 400 and an error code other than              *)
(* "authorization_pending", or with a body that is no error body, is the   *)
(* last step of the call: the call fails with Http for that response, no   *)
(* token POST and no sleep follow, and set_tokens is not called.           *)
(***************************************************************************)
C7_Fatal400 ==
    \A n \in Steps :
        ( /\ IsPoll(trace[n])
          /\ trace[n].resp.transport
          /\ trace[n].resp.status = 400
          /\ ~AnsweredPending(trace[n]) )
        => /\ n = Len(trace)
           /\ pc = "idle"
           /\ result =
                IF trace[n].resp.body.kind = "error"
                THEN HttpStatus(400, trace[n].resp.url)
                ELSE HttpDecode(trace[n].resp.url)
           /\ SetTokensCalls = {}
           /\ TokenStateAsBefore

C7_Witness ==
    /\ op = "authenticate"
    /\ pc = "idle"
    /\ result = HttpStatus(400, AUTH_TOKEN_URL)
    /\ Cardinality(Polls) >= 2
    /\ trace[Len(trace)].resp.body.error = "access_denied"

(***************************************************************************)
(* C8.  When wait_for_tokens was entered and every poll was answered with  *)
(* 400 "authorization_pending", the call ends with Timeout, and tokens and *)
(* deadline are what they were; while it polls nothing is returned.        *)
(***************************************************************************)
EnteredWaitForTokens == \E i \in Steps : trace[i].ev = "wait_for_tokens"

C8_Timeout ==
    ( /\ op = "authenticate"
      /\ EnteredWaitForTokens
      /\ \A i \in Polls : AnsweredPending(trace[i]) )
    => /\ pc \in {"poll", "sleep", "idle"}
       /\ pc = "idle" => result = Timeout
       /\ pc # "idle" => result = NoResult
       /\ SetTokensCalls = {}
       /\ TokenStateAsBefore

C8_Witness ==
    /\ op = "authenticate"
    /\ pc = "idle"
    /\ result = Timeout
    /\ Cardinality(Polls) >= 1
    /\ \A i \in Polls : AnsweredPending(trace[i])

(***************************************************************************)
(* C9.  A refresh whose request fails, or whose response body carries no   *)
(* token pair, returns Http; tokens and deadline are what they were, so    *)
(* the deadline is still passed and the next call asks again.              *)
(***************************************************************************)
C9_RefreshFailure ==
    ( /\ op = "refresh_authentication"
      /\ Ended
      /\ trace # <<>>
      /\ ~CarriesTokens(trace[1]) )
    => /\ pc = "idle"
       /\ result.kind = "Http"
       /\ Len(trace) = 1
       /\ IsRefresh(trace[1])
       /\ TokenStateAsBefore
       /\ ~(now < tokens_refresh_by)

C9_Witness ==
    /\ op = "refresh_authentication"
    /\ pc = "idle"
    /\ result = HttpDecode(AUTH_TOKEN_URL)
    /\ trace[1].resp.status = 400
    /\ trace[1].resp.body.kind = "error"
    /\ received_at # -1

(***************************************************************************)
(* C10.  Within one authenticate call the steps come in the order          *)
(* grant-start POST, device-session POST, consent POST, token polls,       *)
(* set_tokens; each of the first three is sent at most once; a step that   *)
(* fails is the last one; a token poll is sent only after approve_device   *)
(* returned Ok, and set_tokens is called only on a 200 token response.     *)
(***************************************************************************)
RequestsTo(url) == {i \in Steps : IsRequest(trace[i]) /\ trace[i].ep = url}

StartFailed(e) == ~e.resp.transport \/ e.resp.body.kind # "start"

DeviceFailed(e) ==
    \/ ~e.resp.transport
    \/ e.resp.location.header # "text"
    \/ ~e.resp.location.parses
    \/ ~(ParamNames \subseteq e.resp.location.params)

ConsentFailed(e) ==
    \/ ~e.resp.transport
    \/ e.resp.status \in 400..599
    \/ ~e.resp.readable

PollFailed(e) ==
    ~AnsweredPending(e) /\ ~(e.resp.status = 200 /\ CarriesTokens(e))

C10_StepOrder ==
    op = "authenticate"
    => /\ \A u \in {AUTH_START_URL, AUTH_DEVICE_URL, AUTH_COMPLETE_URL} :
            Cardinality(RequestsTo(u)) <= 1
       /\ trace # <<>> /\ RequestsTo(AUTH_START_URL) = {1}
       /\ RequestsTo(AUTH_DEVICE_URL) \subseteq {2}
       /\ RequestsTo(AUTH_COMPLETE_URL) \subseteq {3}
       /\ \A i \in Steps :
            /\ i > 1 /\ IsRequest(trace[i - 1]) /\ i - 1 \notin Polls
               => \/ trace[i].ev = "wait_for_tokens"
                  \/ IsRequest(trace[i]) /\ i \notin Polls
            /\ trace[i].ev = "wait_for_tokens"
               => /\ i = 4
                  /\ RequestsTo(AUTH_COMPLETE_URL) = {3}
                  /\ ~ConsentFailed(trace[3])
            /\ i \in Polls
               => /\ i > 4
                  /\ trace[4].ev = "wait_for_tokens"
                  /\ trace[i - 1].ev \in {"wait_for_tokens", "sleep"}
            /\ i \in Sleeps
               => i - 1 \in Polls /\ AnsweredPending(trace[i - 1])
            /\ i \in SetTokensCalls
               => /\ i = Len(trace)
                  /\ i - 1 \in Polls
                  /\ trace[i - 1].resp.transport
                  /\ trace[i - 1].resp.status = 200
            /\ ( \/ i = 1 /\ StartFailed(trace[i])
                 \/ i = 2 /\ DeviceFailed(trace[i])
                 \/ i = 3 /\ ConsentFailed(trace[i])
                 \/ i \in Polls /\ PollFailed(trace[i]) )
               => /\ i = Len(trace)
                  /\ pc = "idle"
                  /\ result.kind \in {"Http", "HttpHeader", "MissingParam",
                                      "UnexpectedStatus", "UrlParse"}

C10_Witness ==
    /\ op = "authenticate"
    /\ pc = "idle"
    /\ result = Ok
    /\ Cardinality(Polls) >= 2
    /\ Len(trace) = 4 + 2 * Cardinality(Polls)

(***************************************************************************)
(* C11.  Consent status: when the consent POST got a final response, every *)
(* status outside 200-299 (1xx and 3xx as well as 4xx and 5xx) makes       *)
(* approve_device fail with Http, the consent POST being the last step of  *)
(* the call, and every 2xx status makes approve_device return success, so  *)
(* that authenticate enters wait_for_tokens.                               *)
(***************************************************************************)
C11_ConsentStatus ==
    \A i \in RequestsTo(AUTH_COMPLETE_URL) :
        trace[i].resp.transport
        => IF trace[i].resp.status \in 200..299
           THEN /\ Len(trace) > i
                /\ trace[i + 1].ev = "wait_for_tokens"
           ELSE /\ Len(trace) = i
                /\ pc = "idle"
                /\ result.kind = "Http"

(***************************************************************************)
(* C12.  Initiator errors: when the grant-start response has a status      *)
(* outside 200-299, whatever its body, or a body that is no grant-start    *)
(* JSON, authenticate fails with Http and sends neither the device-session *)
(* POST nor the consent POST nor a token poll; for a well-formed 2xx       *)
(* response the session's fields are the fields of the body.               *)
(***************************************************************************)
C12_InitiatorErrors ==
    (op = "authenticate" /\ trace # <<>> /\ trace[1].resp.transport)
    => IF \/ trace[1].resp.status \notin 200..299
          \/ trace[1].resp.body.kind # "start"
       THEN /\ Len(trace) = 1
            /\ pc = "idle"
            /\ result.kind = "Http"
       ELSE pc \in {"device", "consent", "poll", "sleep"}
            => start = trace[1].resp.body

(***************************************************************************)
(* C13.  Missing Location: when the device-session response carries no     *)
(* Location header, whatever its status, approve_device fails with         *)
(* UnexpectedStatus(status of that response, device-session URL); the      *)
(* device-session POST is the last step and no consent POST is sent.       *)
(***************************************************************************)
C13_MissingLocation ==
    \A i \in RequestsTo(AUTH_DEVICE_URL) :
        (trace[i].resp.transport /\ trace[i].resp.location.header = "none")
        => /\ Len(trace) = i
           /\ pc = "idle"
           /\ result = UnexpectedStatus(trace[i].resp.status,
                                        "https://login.tado.com/oauth2/device")
           /\ RequestsTo(AUTH_COMPLETE_URL) = {}

C13_Witness ==
    /\ op = "authenticate"
    /\ pc = "idle"
    /\ Len(trace) = 2
    /\ trace[2].resp.transport
    /\ trace[2].resp.location.header = "none"
    /\ trace[2].resp.status = 400
    /\ result.kind = "UnexpectedStatus"
    /\ result.status = 400

(***************************************************************************)
(* C14.  Missing parameter: when the Location of the device-session        *)
(* response parses as a URL, then for every subset of the six parameters   *)
(* it carries: with at least one absent, approve_device fails with         *)
(* MissingParam naming the first absent one in the order code_challenge,   *)
(* code_challenge_method, redirect_uri, response_type, state, tenantId,    *)
(* and no consent POST is sent; with all six present the code goes on to   *)
(* the consent POST.                                                       *)
(***************************************************************************)
C14_CheckOrder ==
    <<"code_challenge", "code_challenge_method", "redirect_uri",
      "response_type", "state", "tenantId">>

C14_MissingParam ==
    \A i \in RequestsTo(AUTH_DEVICE_URL) :
        ( /\ trace[i].resp.transport
          /\ trace[i].resp.location.header = "text"
          /\ trace[i].resp.location.parses )
        => LET present == trace[i].resp.location.params
               absent == {k \in 1..6 : C14_CheckOrder[k] \notin present}
           IN  IF absent = {}
               THEN \/ pc = "consent" /\ Len(trace) = i
                    \/ RequestsTo(AUTH_COMPLETE_URL) = {i + 1}
               ELSE /\ Len(trace) = i
                    /\ pc = "idle"
                    /\ RequestsTo(AUTH_COMPLETE_URL) = {}
                    /\ \E k \in absent :
                        /\ \A j \in absent : k <= j
                        /\ result = MissingParam(C14_CheckOrder[k])

C14_Witness ==
    /\ op = "authenticate"
    /\ pc = "idle"
    /\ Len(trace) = 2
    /\ trace[2].resp.location.parses
    /\ trace[2].resp.location.params = {"code_challenge", "redirect_uri"}
    /\ result = MissingParam("code_challenge_method")

(***************************************************************************)
(* C15.  Token state is mutated only by set_tokens: in every step of every *)
(* operation, tokens or tokens_refresh_by change only when set_tokens is   *)
(* called in that step, on a 200 token poll or on a refresh response that  *)
(* carries a token pair, and then both hold the new values: the pair       *)
(* handed to set_tokens and the deadline computed from it.  A step of a    *)
(* resource call, and a step in which an operation fails, changes neither. *)
(***************************************************************************)
C15_OnlySetTokens ==
    [][ LET changed == \/ tokens' # tokens
                       \/ tokens_refresh_by' # tokens_refresh_by
            called == set_call' # set_call /\ set_call'.at = now'
            last == Len(trace')
        IN  /\ changed => called
            /\ called
               => /\ last >= 2
                  /\ trace'[last].ev = "set_tokens"
                  /\ trace'[last - 1].ep = AUTH_TOKEN_URL
                  /\ trace'[last - 1].resp.body.kind = "tokens"
                  /\ IsPoll(trace'[last - 1])
                     => trace'[last - 1].resp.status = 200
            /\ changed
               => /\ tokens' = set_call'.tokens
                  /\ tokens_refresh_by' =
                        set_call'.at + (set_call'.tokens.expires_in - 10)
            /\ op' \in {"retrieve_zones", "retrieve_weather"} => ~changed
            /\ result'.kind \in {"Http", "HttpHeader", "MissingParam",
                                 "Timeout", "UnexpectedStatus", "UrlParse",
                                 "Vec", "Some", "None"}
               => ~changed ]_vars

(***************************************************************************)
(* C16.  No mixed token state: one operation runs at a time and set_tokens *)
(* does not suspend between its two writes, so wherever an operation       *)
(* suspends (a network await or the poll sleep), wherever one is about to  *)
(* begin, and wherever a bearer request was sent, the stored deadline is   *)
(* the one computed from the stored pair, or both are still the values of  *)
(* construction; never a new pair with an old deadline, nor an old pair    *)
(* with a new deadline.                                                    *)
(***************************************************************************)
C16_AtSuspension ==
    \/ pc \in {"device", "consent", "poll", "sleep", "zones", "zone_state",
               "weather"}
    \/ pc = "idle"

C16_BearerSent == \E i \in Steps : IsRequest(trace[i]) /\ trace[i].bearer

C16_NoMixedState ==
    (C16_AtSuspension \/ C16_BearerSent)
    => \/ /\ received_at = -1
          /\ tokens = [access_token |-> "", refresh_token |-> "",
                       expires_in |-> 0]
          /\ tokens_refresh_by = 0
       \/ /\ received_at # -1
          /\ tokens_refresh_by = received_at + (tokens.expires_in - 10)

(***************************************************************************)
(* C17.  Client identity is immutable: the client built by                 *)
(* new("username", "password", "client_id") holds exactly that username,   *)
(* password and client_id, and BASE_URL, and no step of any operation,     *)
(* whether the operation succeeds, fails or aborts, changes them.          *)
(***************************************************************************)
C17_IdentityImmutable ==
    identity = [username |-> "username", password |-> "password",
                client_id |-> "client_id",
                base_url |-> "https://my.tado.com/api/v2/"]

C17_Witness ==
    /\ op = "authenticate"
    /\ pc = "idle"
    /\ result = Ok
    /\ set_call.at # -1
    /\ home_id # 0
    /\ identity.username = "username"
    /\ identity.password = "password"

(***************************************************************************)
(* C18.  Resource-fetch degradation: whatever the requests of              *)
(* retrieve_zones and retrieve_weather are answered with (a transport      *)
(* error, an undecodable body, account metadata listing zero homes), the   *)
(* operation does not abort: retrieve_zones returns a list, possibly       *)
(* empty, and retrieve_weather returns a value or None.                    *)
(***************************************************************************)
C18_Degrades ==
    /\ op = "retrieve_zones"
       => /\ pc \in {"zones", "zone_state", "idle"}
          /\ pc = "idle" => result = ReturnedVec
    /\ op = "retrieve_weather"
       => /\ pc \in {"weather", "idle"}
          /\ pc = "idle" => result \in {ReturnedSome, ReturnedNone}

(***************************************************************************)
(* C19.  Token Poller termination: once wait_for_tokens is entered, with   *)
(* an interval of at least one second and whatever the token endpoint      *)
(* answers, the call is polling, sleeping, or has ended in exactly one of  *)
(* Ok (after set_tokens), Http or UnexpectedStatus (after the poll that    *)
(* failed) or Timeout (after the expiry check), and nothing follows the    *)
(* step it ended with; the token POSTs sent number at most                 *)
(* ceil(expires_in / interval), and with expires_in = 0 there is none and  *)
(* the call fails with Timeout.                                            *)
(***************************************************************************)
C19_PollerTerminates ==
    ( /\ op = "authenticate"
      /\ EnteredWaitForTokens
      /\ trace[1].resp.body.interval >= 1 )
    => LET expires_in == trace[1].resp.body.expires_in
           interval == trace[1].resp.body.interval
           sent == Cardinality(Polls)
           last == trace[Len(trace)]
       IN  /\ pc \in {"poll", "sleep", "idle"}
           /\ pc = "idle"
              => \/ result = Ok /\ last.ev = "set_tokens"
                 \/ /\ result.kind \in {"Http", "UnexpectedStatus"}
                    /\ IsPoll(last)
                 \/ /\ result = Timeout
                    /\ last.ev \in {"wait_for_tokens", "sleep"}
           \* sent <= ceil(expires_in / interval)
           /\ (sent - 1) * interval < expires_in \/ sent = 0
           /\ expires_in = 0
              => /\ sent = 0
                 /\ pc \in {"poll", "idle"}
                 /\ pc = "idle" => result = Timeout

(***************************************************************************)
(* C20.  Poll deadline anchoring: every token POST of authenticate, the    *)
(* first included, is started right after an expiry check that passed,     *)
(* and none is started at or after session_start + expires_in, where       *)
(* session_start is the instant the grant-start response was decoded: the  *)
(* time the approval step takes counts against the grant's validity.       *)
(***************************************************************************)
C20_DeadlineAnchoring ==
    [][ ( /\ op' = "authenticate"
          /\ \E i \in (DOMAIN trace') \ (DOMAIN trace) : IsPoll(trace'[i]) )
        => /\ pc = "poll"
           /\ now < must_complete_by
           /\ now < session_start + start.expires_in ]_vars

(***************************************************************************)
(* C21.  A refresh no-op implies tokens were issued: in every state, the   *)
(* clock is before the refresh deadline only if set_tokens has stored a    *)
(* pair the server issued; so on a client just built, and after any failed *)
(* authenticate, refresh_authentication does not return Ok without having  *)
(* sent a refresh request, and the empty access token of construction is   *)
(* never taken as still valid.                                             *)
(***************************************************************************)
C21_NoOpImpliesIssued ==
    /\ now < tokens_refresh_by
       => /\ received_at # -1
          /\ tokens.access_token # ""
    /\ ( /\ op = "refresh_authentication"
         /\ Ended
         /\ result = Ok
         /\ ~\E i \in Steps : IsRefresh(trace[i]) )
       => /\ received_at # -1
          /\ tokens.access_token # ""
          /\ now < tokens_refresh_by

C21_Witness ==
    /\ op = "refresh_authentication"
    /\ pc = "idle"
    /\ result = Ok
    /\ trace = <<>>
    /\ now < tokens_refresh_by
    /\ received_at # -1
    /\ tokens.access_token = "A"

\* a client without tokens was asked to refresh and did send the request
C21_WitnessFresh ==
    /\ op = "refresh_authentication"
    /\ pc = "idle"
    /\ received_at = -1
    /\ tokens.access_token = ""
    /\ result.kind = "Http"
    /\ IsRefresh(trace[1])
    /\ now >= 5

(***************************************************************************)
(* C22.  Cookie propagation: the Cookie headers of the consent POST are    *)
(* the Set-Cookie values of the device-session response of the same        *)
(* approval attempt, each once, unmodified and in the same order; nothing  *)
(* from another response or an earlier attempt is sent, and with no        *)
(* Set-Cookie value there is no Cookie header.  No other request of the    *)
(* flow carries a Cookie header.                                           *)
(***************************************************************************)
C22_CookiePropagation ==
    \A i \in Steps :
        IsRequest(trace[i])
        => IF trace[i].ep = AUTH_COMPLETE_URL
           THEN /\ i > 1
                /\ trace[i - 1].ep = AUTH_DEVICE_URL
                /\ trace[i].cookies = trace[i - 1].resp.cookies
           ELSE trace[i].cookies = <<>>

C22_Witness ==
    /\ op = "authenticate"
    /\ Len(trace) >= 3
    /\ trace[3].ep = AUTH_COMPLETE_URL
    /\ trace[2].resp.cookies = <<"c2", "c1">>
    /\ trace[3].cookies = <<"c2", "c1">>
    /\ now >= 6

(***************************************************************************)
(* C23.  retrieve_zones is all-or-nothing.  While it runs, every request   *)
(* before the last one was answered with a decodable body, and the         *)
(* zone-state requests ask for the zones of the listing, in listing order. *)
(* When it has ended it has returned a list, which is either empty or has  *)
(* one entry per zone of the listing, in listing order, each pairing the   *)
(* zone's name with the state fetched for that zone; it is empty whenever  *)
(* the home lookup, the listing or one zone-state request failed, and the  *)
(* request that failed is the last one sent.                               *)
(***************************************************************************)
C23_Answered(e, kind) == e.resp.transport /\ e.resp.body.kind = kind

\* the position of the zones listing in the trace: after the home lookup
\* when there is one
C23_ListingAt == IF trace[1].ep = "/api/v2/me" THEN 2 ELSE 1

C23_AllOrNothing ==
    (op = "retrieve_zones" /\ trace # <<>>)
    => LET k == C23_ListingAt
           listed == IF Len(trace) >= k /\ C23_Answered(trace[k], "zones")
                     THEN trace[k].resp.body.zones ELSE <<>>
           failed == {i \in Steps :
                        ~C23_Answered(trace[i],
                            IF i < k THEN "me"
                            ELSE IF i = k THEN "zones" ELSE "data")}
           lookup_void == /\ k = 2
                          /\ C23_Answered(trace[1], "me")
                          /\ trace[1].resp.body.homes = <<>>
       IN  /\ \A i \in failed : i = Len(trace)
           /\ Len(trace) <= k + Len(listed)
           /\ \A j \in 1..(Len(trace) - k) :
                trace[k + j].ep =
                    "/api/v2/homes/" \o ToString(home_id) \o "/zones/"
                        \o ToString(listed[j].id) \o "/state"
           /\ (failed # {} \/ lookup_void \/ Len(trace) = k + Len(listed))
              => /\ pc = "idle"
                 /\ result = ReturnedVec
           /\ pc = "idle"
              => IF failed # {} \/ lookup_void
                 THEN value = <<>>
                 ELSE /\ Len(value) = Len(listed)
                      /\ \A j \in 1..Len(listed) :
                            /\ value[j].name = listed[j].name
                            /\ value[j].state_response =
                                    trace[k + j].resp.body.data

(***************************************************************************)
(* C24.  Home identifier caching: in every step of every retrieve_zones    *)
(* and retrieve_weather call, the account-metadata request (me) is sent    *)
(* only while home_id is 0; a lookup that fails leaves home_id at 0 and is *)
(* the only request of its call; home_id changes only to the id of the     *)
(* first home of a decoded me response; and once it is not 0 it does not   *)
(* change and me is not requested any more.                                *)
(***************************************************************************)
C24_HomeIdCaching ==
    [][ LET new == (DOMAIN trace') \ (DOMAIN trace)
            me_sent == \E i \in new : trace'[i].ep = "/api/v2/me"
            answer == trace'[1].resp
            found == /\ answer.transport
                     /\ answer.body.kind = "me"
                     /\ answer.body.homes # <<>>
        IN  /\ me_sent
               => /\ home_id = 0
                  /\ op' \in {"retrieve_zones", "retrieve_weather"}
                  /\ new = {1}
            /\ (me_sent /\ ~found)
               => /\ home_id' = 0
                  /\ pc' \in {"idle", "panicked"}
                  /\ Len(trace') = 1
            /\ (me_sent /\ found) => home_id' = answer.body.homes[1]
            /\ home_id' # home_id => me_sent /\ found
            /\ home_id # 0 => home_id' = home_id /\ ~me_sent ]_vars

C24_Witness ==
    /\ home_id = 2
    /\ op = "retrieve_weather"
    /\ pc = "idle"
    /\ result = ReturnedSome
    /\ Len(trace) = 1
    /\ trace[1].bearer
    /\ trace[1].ep # "/api/v2/me"

====
